---------------------------- MODULE Spec2Model ----------------------------
(***************************************************************************)
(* A model of restaurant_finder.py: the RestaurantFinder class (search,    *)
(* extraction heuristics, sample data, JSON persistence, console display)  *)
(* and main().                                                             *)
(*                                                                         *)
(* Text.  A Python str is modelled as a sequence of characters, each       *)
(* character a one-element TLA+ string.  Characters outside ASCII are      *)
(* written as named tokens: "a_tilde", "A_TILDE", "e_acute", "E_ACUTE"     *)
(* (Latin letters with diacritics), "STAR" (U+2605), "EN_DASH" (U+2013),   *)
(* "EM_DASH" (U+2014), "TAB" and "NL".                                     *)
(*                                                                         *)
(* Numbers.  A float is the pair <<num, den>> with den a power of ten and  *)
(* no trailing zero in num (4.5 = <<45, 10>>, 4.0 = <<4, 1>>), so equal    *)
(* floats are equal pairs.  An int held in an Optional[int] is <<n>>.      *)
(* None is the empty tuple, which is no float, no <<n>> and no regex group *)
(* (every group of the patterns below holds at least one digit).           *)
(*                                                                         *)
(* Evaluation.  Where the Python code assigns an intermediate result to a  *)
(* local variable, the model binds it with a quantifier or a comprehension *)
(* over a singleton set, Only({f(x) : x \in {e}}), so that e is evaluated  *)
(* once, as in the code.                                                   *)
(***************************************************************************)
EXTENDS Integers, Sequences, FiniteSets, TLC

VARIABLES
    pc,               \* position of main(): see the actions below
    city,             \* main: city (stripped input)
    response,         \* search_restaurants: outcome of session.get / raise_for_status
    caught,           \* search_restaurants: the except clause that ran, if any
    soup,             \* search_restaurants: the parsed page (blocks, text lines)
    fs_ok,            \* whether open()/json.dump in save_to_json succeeded
    restaurants,      \* search_restaurants: restaurants; main: restaurants
    displayed,        \* what display_results printed
    restaurant_dict,  \* save_to_json: restaurant_dict, in insertion order
    filename,         \* save_to_json: its return value
    file,             \* the content of the JSON file on disk, or None
    arg,              \* argument of a function applied on its own
    ret               \* result of a function applied on its own

vars == <<pc, city, response, caught, soup, fs_ok, restaurants, displayed,
          restaurant_dict, filename, file, arg, ret>>

None == <<>>

\* the element of a singleton set
Only(S) == CHOOSE x \in S : TRUE

Min(S) == CHOOSE x \in S : \A y \in S : x <= y
Max(S) == CHOOSE x \in S : \A y \in S : x >= y

(***************************************************************************)
(* Bounds of the model.                                                    *)
(***************************************************************************)

\* Largest number of <div class="g"> blocks on a fetched page.
MaxBlocks == 16
\* Largest number of text lines (before the final empty one) of a page.
MaxLines == 6

(***************************************************************************)
(* Characters and strings.                                                 *)
(***************************************************************************)

\* str.isspace() / regex \s
IsSpace(c) == c \in {" ", "TAB", "NL"}

\* regex \d
IsDigit(c) == c \in {"0", "1", "2", "3", "4", "5", "6", "7", "8", "9"}

DigitChars == <<"0", "1", "2", "3", "4", "5", "6", "7", "8", "9">>

DigitVal(c) == Only({d \in 0..9 : DigitChars[d + 1] = c})

DigitChar(d) == DigitChars[d + 1]

UpperChars == <<"A","B","C","D","E","F","G","H","I","J","K","L","M","N","O","P","Q","R","S","T","U","V","W","X","Y","Z","A_TILDE","E_ACUTE">>
LowerChars == <<"a","b","c","d","e","f","g","h","i","j","k","l","m","n","o","p","q","r","s","t","u","v","w","x","y","z","a_tilde","e_acute">>

\* the letters: str.isalpha()
IsLetter(c) ==
    \E i \in 1..Len(UpperChars) : c = UpperChars[i] \/ c = LowerChars[i]

\* str.lower() on one character
lower_char(c) ==
    IF \E i \in 1..Len(UpperChars) : UpperChars[i] = c
    THEN LowerChars[Only({i \in 1..Len(UpperChars) : UpperChars[i] = c})]
    ELSE c

\* str.lower()
lower(s) == [i \in 1..Len(s) |-> lower_char(s[i])]

\* s[i:] starts with p
StartsWithAt(s, i, p) ==
    /\ i >= 1
    /\ i + Len(p) - 1 <= Len(s)
    /\ \A k \in 1..Len(p) : s[i + k - 1] = p[k]

\* the same under re.IGNORECASE, p being lower-case
StartsWithAtCI(s, i, p) ==
    /\ i >= 1
    /\ i + Len(p) - 1 <= Len(s)
    /\ \A k \in 1..Len(p) : lower_char(s[i + k - 1]) = p[k]

\* Python's "p in s"
contains(s, p) == \E i \in 1..(Len(s) - Len(p) + 1) : StartsWithAt(s, i, p)

\* any(k in s for k in ks), ks a sequence of strings
contains_any(s, ks) == \E n \in 1..Len(ks) : contains(s, ks[n])

\* the first index >= i of s that holds no whitespace (Len(s) + 1 if none):
\* where a greedy \s* started at i ends
SkipSpaces(s, i) == Min({j \in i..Len(s) : ~IsSpace(s[j])} \cup {Len(s) + 1})

\* the first index >= i of s that holds no digit: where a greedy \d* ends
SkipDigits(s, i) == Min({j \in i..Len(s) : ~IsDigit(s[j])} \cup {Len(s) + 1})

\* the characters of s at the 1-based positions i..j-1
Slice(s, i, j) == IF j <= i THEN <<>> ELSE SubSeq(s, i, j - 1)

\* the first index from i on that holds no whitespace, or Len(s) + 1
RECURSIVE FirstNonSpace(_, _)
FirstNonSpace(s, i) ==
    IF i > Len(s) \/ ~IsSpace(s[i]) THEN i ELSE FirstNonSpace(s, i + 1)

\* the last index up to j that holds no whitespace, or 0
RECURSIVE LastNonSpace(_, _)
LastNonSpace(s, j) ==
    IF j < 1 \/ ~IsSpace(s[j]) THEN j ELSE LastNonSpace(s, j - 1)

\* str.strip()
strip(s) ==
    Only({ IF first > Len(s) THEN <<>>
           ELSE SubSeq(s, first, LastNonSpace(s, Len(s))) :
           first \in {FirstNonSpace(s, 1)} })

RECURSIVE Pow10(_)
Pow10(n) == IF n = 0 THEN 1 ELSE 10 * Pow10(n - 1)

\* int() of a string of digits
ParseInt(s) ==
    LET value[n \in 0..Len(s)] ==
            IF n = 0 THEN 0 ELSE 10 * value[n - 1] + DigitVal(s[n])
    IN  value[Len(s)]

\* str() of a natural number
RECURSIVE IntText(_)
IntText(n) ==
    IF n < 10 THEN <<DigitChar(n)>>
    ELSE IntText(n \div 10) \o <<DigitChar(n % 10)>>

(***************************************************************************)
(* is_restaurant_result                                                    *)
(***************************************************************************)

restaurant_keywords ==
    << <<"r","e","s","t","a","u","r","a","n","t">>, <<"c","a","f","e">>, <<"b","i","s","t","r","o">>, <<"g","r","i","l","l">>, <<"k","i","t","c","h","e","n">>, <<"b","a","r">>,
       <<"e","a","t","e","r","y">>, <<"d","i","n","e","r">>, <<"p","i","z","z","e","r","i","a">>, <<"s","t","e","a","k","h","o","u","s","e">>, <<"t","a","v","e","r","n">>,
       <<"f","o","o","d">>, <<"d","i","n","i","n","g">>, <<"m","e","n","u">>, <<"c","u","i","s","i","n","e">> >>

is_restaurant_result(title) ==
    \E title_lower \in {lower(title)} :
        contains_any(title_lower, restaurant_keywords)

(***************************************************************************)
(* clean_restaurant_name                                                   *)
(***************************************************************************)

\* the alternatives of (Menu|Reviews?|Yelp|TripAdvisor|OpenTable), lower-case
suffix_words ==
    << <<"m","e","n","u">>, <<"r","e","v","i","e","w","s">>, <<"r","e","v","i","e","w">>, <<"y","e","l","p">>, <<"t","r","i","p","a","d","v","i","s","o","r">>,
       <<"o","p","e","n","t","a","b","l","e">> >>

\* where the alternative starts when the match starts at i: after \s*-\s*
WordStart(title, i) ==
    Only({SkipSpaces(title, j + 1) : j \in {SkipSpaces(title, i)}})

\* \s*-\s*(Menu|Reviews?|Yelp|TripAdvisor|OpenTable) matches at index i
SuffixMatchAt(title, i) ==
    \E j \in {SkipSpaces(title, i)} :
        /\ j <= Len(title)
        /\ title[j] = "-"
        /\ \E k \in {SkipSpaces(title, j + 1)} :
              \E n \in 1..Len(suffix_words) :
                  StartsWithAtCI(title, k, suffix_words[n])

\* where .*$ started at k ends, or 0 if it cannot match: "." matches no
\* newline, and $ matches at the end or before a final newline
DotStarEnd(title, k) ==
    Only({ IF nls = {} THEN Len(title) + 1
           ELSE IF Min(nls) = Len(title) THEN Len(title) ELSE 0 :
           nls \in {{j \in k..Len(title) : title[j] = "NL"}} })

\* where the match of the whole pattern that starts at i ends, or 0
SuffixMatchEnd(title, i) ==
    IF SuffixMatchAt(title, i)
    THEN Only({DotStarEnd(title, k) : k \in {WordStart(title, i)}})
    ELSE 0

\* re.sub(r'\s*-\s*(Menu|Reviews?|Yelp|TripAdvisor|OpenTable).*$', '', title,
\*        flags=re.IGNORECASE): the leftmost match is cut out
strip_suffix(title) ==
    Only({ IF starts = {} THEN title
           ELSE Only({ Slice(title, 1, i) \o
                       Slice(title, SuffixMatchEnd(title, i), Len(title) + 1) :
                       i \in {Min(starts)} }) :
           starts \in {{i \in 1..Len(title) : SuffixMatchEnd(title, i) # 0}} })

\* the length of the match of ^(Top|Best)\s+\d+\s+ when it starts with
\* the word w, 0 if none
PrefixLenWith(title, w) ==
    IF ~StartsWithAtCI(title, 1, w) THEN 0
    ELSE Only({ IF b > Len(w) + 1 /\ c > b /\ d > c THEN d - 1 ELSE 0 :
                b \in {SkipSpaces(title, Len(w) + 1)},
                c \in {SkipDigits(title, SkipSpaces(title, Len(w) + 1))},
                d \in {SkipSpaces(title, SkipDigits(title,
                           SkipSpaces(title, Len(w) + 1)))} })

\* the length of the match of ^(Top|Best)\s+\d+\s+ (IGNORECASE), 0 if none
PrefixMatchLen(title) ==
    Max({PrefixLenWith(title, <<"t","o","p">>), PrefixLenWith(title, <<"b","e","s","t">>)})

\* re.sub(r'^(Top|Best)\s+\d+\s+', '', title, flags=re.IGNORECASE)
strip_prefix(title) ==
    Only({Slice(title, n + 1, Len(title) + 1) : n \in {PrefixMatchLen(title)}})

\* the characters of the class [- EN_DASH EM_DASH ,]
IsNameSeparator(c) == c \in {"-", "EN_DASH", "EM_DASH", ","}

\* re.split(r'[- EN_DASH EM_DASH ,]', title)[0]
first_part(title) ==
    Only({ IF seps = {} THEN title ELSE Slice(title, 1, Min(seps)) :
           seps \in {{j \in 1..Len(title) : IsNameSeparator(title[j])}} })

clean_restaurant_name(title) ==
    Only({ strip(parts_0) :
           parts_0 \in { first_part(t2) :
               t2 \in { strip_prefix(t1) :
                   t1 \in {strip_suffix(title)} } } })

(***************************************************************************)
(* extract_rating_from_text                                                *)
(***************************************************************************)

\* the indices e such that \d+\.?\d* matches s[i..e-1]
NumberEnds(s, i) ==
    IF i < 1 \/ i > Len(s) \/ ~IsDigit(s[i]) THEN {}
    ELSE Only({ ((i + 1)..d) \cup
                (IF d <= Len(s) /\ s[d] = "."
                 THEN (d + 1)..SkipDigits(s, d + 1) ELSE {}) :
                d \in {SkipDigits(s, i)} })

\* the ends of the numbers that start at i and are followed by \s* and one
\* of the words (IGNORECASE)
NumberEndsBefore(s, i, words) ==
    {e \in NumberEnds(s, i) :
        \E k \in {SkipSpaces(s, e)} :
            \E n \in 1..Len(words) : StartsWithAtCI(s, k, words[n])}

\* group 1 of the leftmost match of (\d+\.?\d*)\s*(?:w1|w2|...) under
\* IGNORECASE, or None; the greedy quantifiers give the longest number
\* that the rest of the pattern still follows
NumberBefore(s, words) ==
    Only({ IF starts = {} THEN None
           ELSE Only({ Slice(s, i, Max(NumberEndsBefore(s, i, words))) :
                       i \in {Min(starts)} }) :
           starts \in {{i \in 1..Len(s) :
                          IsDigit(s[i]) /\ NumberEndsBefore(s, i, words) # {}}} })

\* where the number starts when word:?\s*(\d+\.?\d*) (the colon only if
\* colon is TRUE) matches at i, or 0
NumberStartAfter(s, i, word, colon) ==
    IF ~StartsWithAtCI(s, i, word) THEN 0
    ELSE Only({ IF NumberEnds(s, k) # {} THEN k ELSE 0 :
                k \in {SkipSpaces(s, IF /\ colon
                                        /\ i + Len(word) <= Len(s)
                                        /\ s[i + Len(word)] = ":"
                                     THEN i + Len(word) + 1
                                     ELSE i + Len(word))} })

\* group 1 of the leftmost match of word:?\s*(\d+\.?\d*), or None
NumberAfter(s, word, colon) ==
    Only({ IF starts = {} THEN None
           ELSE Only({ Slice(s, k, Max(NumberEnds(s, k))) :
                       k \in {NumberStartAfter(s, Min(starts), word, colon)} }) :
           starts \in {{i \in 1..Len(s) :
                          NumberStartAfter(s, i, word, colon) # 0}} })

RECURSIVE Normalize(_, _)
Normalize(num, den) ==
    IF den > 1 /\ num % 10 = 0
    THEN Normalize(num \div 10, den \div 10) ELSE <<num, den>>

\* float() of a text matched by \d+\.?\d*
ParseFloat(t) ==
    Only({ IF dots = {} THEN <<ParseInt(t), 1>>
           ELSE Only({ Normalize(ParseInt(digits), Pow10(Len(t) - Min(dots))) :
                       digits \in {Slice(t, 1, Min(dots)) \o
                                   Slice(t, Min(dots) + 1, Len(t) + 1)} }) :
           dots \in {{j \in 1..Len(t) : t[j] = "."}} })

\* 0 <= rating <= 5
rating_in_range(r) == 0 <= r[1] /\ r[1] <= 5 * r[2]

\* the words of (?:stars?|/5|out of 5)
rating_suffixes == << <<"s","t","a","r","s">>, <<"s","t","a","r">>, <<"/","5">>, <<"o","u","t"," ","o","f"," ","5">> >>

\* match.group(1) of the n-th of rating_patterns (None: no match)
rating_match(text, n) ==
    CASE n = 1 -> NumberBefore(text, rating_suffixes)
      [] n = 2 -> NumberAfter(text, <<"r","a","t","i","n","g">>, TRUE)
      [] n = 3 -> NumberBefore(text, << <<"STAR">> >>)
      [] n = 4 -> NumberAfter(text, <<"STAR">>, FALSE)

\* rating_by without the range test; C8 is checked against it
rating_by_unbounded(text, n) ==
    Only({ IF m = None THEN None ELSE ParseFloat(m) :
           m \in {rating_match(text, n)} })

\* the rating the n-th pattern yields: float(match.group(1)) if it matches
\* and 0 <= rating <= 5, else None
rating_by(text, n) ==
    Only({ IF m = None THEN None
           ELSE Only({ IF rating_in_range(rating) THEN rating ELSE None :
                       rating \in {ParseFloat(m)} }) :
           m \in {rating_match(text, n)} })

\* the number of rating_patterns
RatingPatterns == 4

\* the for loop over rating_patterns from pattern n on
RECURSIVE rating_from(_, _)
rating_from(text, n) ==
    IF n > RatingPatterns THEN None
    ELSE Only({ IF r # None THEN r ELSE rating_from(text, n + 1) :
                r \in {rating_by(text, n)} })

extract_rating_from_text(text) == rating_from(text, 1)

(***************************************************************************)
(* extract_review_count                                                    *)
(***************************************************************************)

\* the indices where (?:,\d{3})* started at p can end
RECURSIVE GroupEnds(_, _)
GroupEnds(s, p) ==
    IF /\ p + 3 <= Len(s)
       /\ s[p] = ","
       /\ \A k \in 1..3 : IsDigit(s[p + k])
    THEN {p} \cup GroupEnds(s, p + 4)
    ELSE {p}

\* \s*reviews? matches at e, then `close` (a string, possibly empty)
ReviewWordAt(s, e, close) ==
    \E k \in {SkipSpaces(s, e)} :
        /\ StartsWithAtCI(s, k, <<"r","e","v","i","e","w">>)
        /\ \/ StartsWithAtCI(s, k + 6, <<"s">> \o close)
           \/ StartsWithAtCI(s, k + 6, close)

\* the ends of group 1 when \d{1,3}(?:,\d{3})* starts at i with d leading
\* digits and \s*reviews? and `close` follow
GroupedEnds(s, i, d, close) ==
    IF \A k \in 0..(d - 1) : i + k <= Len(s) /\ IsDigit(s[i + k])
    THEN {e \in GroupEnds(s, i + d) : ReviewWordAt(s, e, close)}
    ELSE {}

\* the end of group 1 of the match that starts at i, or 0: most leading
\* digits first, then most groups
GroupedCountEnd(s, i, close) ==
    Only({ IF ds = {} THEN 0 ELSE Max(GroupedEnds(s, i, Max(ds), close)) :
           ds \in {{d \in 1..3 : i >= 1 /\ GroupedEnds(s, i, d, close) # {}}} })

\* group 1 of the leftmost match of open(\d{1,3}(?:,\d{3})*)\s*reviews?close
GroupedCount(s, open, close) ==
    Only({ IF starts = {} THEN None
           ELSE Only({ Slice(s, i, GroupedCountEnd(s, i, close)) :
                       i \in {Min(starts) + Len(open)} }) :
           starts \in {{i \in 1..Len(s) :
                          /\ StartsWithAt(s, i, open)
                          /\ GroupedCountEnd(s, i + Len(open), close) # 0}} })

\* the ends of (\d+) started at i that \s*reviews? follows
PlainEnds(s, i) ==
    IF ~IsDigit(s[i]) THEN {}
    ELSE {e \in (i + 1)..SkipDigits(s, i) : ReviewWordAt(s, e, <<>>)}

\* group 1 of the leftmost match of (\d+)\s*reviews?
PlainCount(s) ==
    Only({ IF starts = {} THEN None
           ELSE Only({ Slice(s, i, Max(PlainEnds(s, i))) : i \in {Min(starts)} }) :
           starts \in {{i \in 1..Len(s) : PlainEnds(s, i) # {}}} })

\* str.replace(',', '')
remove_commas(s) ==
    LET kept[n \in 0..Len(s)] ==
            IF n = 0 THEN <<>>
            ELSE IF s[n] = "," THEN kept[n - 1] ELSE Append(kept[n - 1], s[n])
    IN  kept[Len(s)]

\* match.group(1) of the n-th of review_patterns (None: no match)
review_match(text, n) ==
    CASE n = 1 -> GroupedCount(text, <<>>, <<>>)
      [] n = 2 -> GroupedCount(text, <<"(">>, <<")">>)
      [] n = 3 -> PlainCount(text)

\* the number of review_patterns
ReviewPatterns == 3

\* the for loop over review_patterns from pattern n on
RECURSIVE review_count_from(_, _)
review_count_from(text, n) ==
    IF n > ReviewPatterns THEN None
    ELSE Only({ IF m # None
                THEN Only({ <<ParseInt(count_str)>> :
                            count_str \in {remove_commas(m)} })
                ELSE review_count_from(text, n + 1) :
                m \in {review_match(text, n)} })

extract_review_count(text) == review_count_from(text, 1)

(***************************************************************************)
(* guess_cuisine_type                                                      *)
(***************************************************************************)

\* cuisine_keywords, in the dict's insertion order
cuisine_keywords ==
    << <<"Italian", << <<"i","t","a","l","i","a","n">>, <<"p","i","z","z","a">>, <<"p","a","s","t","a">>, <<"p","i","z","z","e","r","i","a">> >> >>,
       <<"Chinese", << <<"c","h","i","n","e","s","e">>, <<"a","s","i","a","n">>, <<"d","i","m"," ","s","u","m">> >> >>,
       <<"Mexican", << <<"m","e","x","i","c","a","n">>, <<"t","a","c","o">>, <<"b","u","r","r","i","t","o">>, <<"t","e","x","-","m","e","x">> >> >>,
       <<"American", << <<"a","m","e","r","i","c","a","n">>, <<"b","u","r","g","e","r">>, <<"s","t","e","a","k","h","o","u","s","e">>, <<"b","b","q">>,
                        <<"g","r","i","l","l">> >> >>,
       <<"French", << <<"f","r","e","n","c","h">>, <<"b","i","s","t","r","o">>, <<"b","r","a","s","s","e","r","i","e">> >> >>,
       <<"Indian", << <<"i","n","d","i","a","n">>, <<"c","u","r","r","y">>, <<"t","a","n","d","o","o","r">> >> >>,
       <<"Japanese", << <<"j","a","p","a","n","e","s","e">>, <<"s","u","s","h","i">>, <<"r","a","m","e","n">> >> >>,
       <<"Mediterranean", << <<"m","e","d","i","t","e","r","r","a","n","e","a","n">>, <<"g","r","e","e","k">>,
                             <<"m","i","d","d","l","e"," ","e","a","s","t","e","r","n">> >> >> >>

\* the for loop over cuisine_keywords.items() from entry n on
RECURSIVE cuisine_from(_, _)
cuisine_from(text, n) ==
    IF n > Len(cuisine_keywords) THEN "Various"
    ELSE IF contains_any(text, cuisine_keywords[n][2])
         THEN cuisine_keywords[n][1]
         ELSE cuisine_from(text, n + 1)

\* guess_cuisine_type without .lower(); C9 is checked against it
guess_cuisine_type_cased(title, description) ==
    Only({ cuisine_from(text, 1) :
           text \in {title \o <<" ">> \o description} })

guess_cuisine_type(title, description) ==
    Only({ cuisine_from(text, 1) :
           text \in { lower(joined) :
                      joined \in {title \o <<" ">> \o description} } })

(***************************************************************************)
(* extract_restaurant_info and extract_alternative_results                 *)
(*                                                                         *)
(* The parsed page (soup) is a record: blocks, the <div class="g">         *)
(* elements in document order, and lines, soup.get_text().split('\n').     *)
(* A block is [has_h3, title, url, snippet, error]: title is the h3's      *)
(* get_text(strip=True), url the first link's href ('' if none), snippet   *)
(* the snippet element's text ('' if none), and error tells that handling  *)
(* the block raises inside the loop's try.                                 *)
(***************************************************************************)

\* if len(restaurants) >= 15: break
PrimaryLimit == 15
\* if len(restaurants) < 5: ... extract_alternative_results
FallbackThreshold == 5
\* extract_alternative_results: if len(restaurants) >= 5: break
FallbackLimit == 5
\* snippet[:200] + '...' if len(snippet) > 200 else snippet
DescriptionLimit == 200
\* len(line) > 5 and len(line) < 100
LineMinLen == 5
LineMaxLen == 100
\* return restaurants[:10]
TopLimit == 10

truncate_description(snippet) ==
    IF Len(snippet) > DescriptionLimit
    THEN SubSeq(snippet, 1, DescriptionLimit) \o <<".",".",".">>
    ELSE snippet

\* the restaurant dict built from a result with the given title, snippet
\* and url
restaurant_entry(title, snippet, url, c) ==
    [ name |-> clean_restaurant_name(title),
      rating |-> Only({ extract_rating_from_text(text) :
                        text \in {snippet \o <<" ">> \o title} }),
      reviews |-> extract_review_count(snippet),
      description |-> truncate_description(snippet),
      city |-> c,
      url |-> url,
      cuisine_type |-> guess_cuisine_type(title, snippet) ]

\* the restaurant dict built from one search result
primary_record(block, c) ==
    Only({ restaurant_entry(title, snippet, url, c) :
           title \in {block.title}, snippet \in {block.snippet},
           url \in {block.url} })

\* whether the loop body reaches restaurants.append for this result
accepted(block) ==
    /\ block.has_h3
    /\ is_restaurant_result(block.title)
    /\ ~block.error

\* the for loop over search_results from result n on, acc being restaurants
RECURSIVE primary_pass(_, _, _, _)
primary_pass(blocks, n, c, acc) ==
    IF n > Len(blocks) THEN acc
    ELSE IF \E block \in {blocks[n]} : ~accepted(block)
         THEN primary_pass(blocks, n + 1, c, acc)
         ELSE Only({ IF Len(more) >= PrimaryLimit THEN more
                     ELSE primary_pass(blocks, n + 1, c, more) :
                     more \in {Append(acc, primary_record(blocks[n], c))} })

restaurant_indicators ==
    << <<"r","e","s","t","a","u","r","a","n","t">>, <<"c","a","f","e">>, <<"b","i","s","t","r","o">>, <<"g","r","i","l","l">>, <<"k","i","t","c","h","e","n">> >>

\* the restaurant dict built from one text line; draw holds what
\* round(random.uniform(3.5, 4.8), 1) and random.randint(50, 500) return
alternative_record(line, c, draw) ==
    [ name |-> line,
      rating |-> draw.rating,
      reviews |-> <<draw.reviews>>,
      description |-> <<"P","o","p","u","l","a","r"," ","r","e","s","t","a","u","r","a","n","t"," ","i","n"," ">> \o c,
      city |-> c,
      url |-> <<>>,
      cuisine_type |-> "Various" ]

\* whether a stripped line looks like a restaurant name
is_restaurant_line(line) ==
    /\ Len(line) > LineMinLen
    /\ Len(line) < LineMaxLen
    /\ \E line_lower \in {lower(line)} :
          contains_any(line_lower, restaurant_indicators)

\* the for loop over lines from line n on; draws are the random values
RECURSIVE alternative_pass(_, _, _, _, _)
alternative_pass(lines, n, c, draws, acc) ==
    IF n > Len(lines) THEN acc
    ELSE Only({ IF is_restaurant_line(line)
                THEN Only({ IF Len(more) >= FallbackLimit THEN more
                            ELSE alternative_pass(lines, n + 1, c, draws, more) :
                            more \in {Append(acc, alternative_record(
                                          line, c, draws[Len(acc) + 1]))} })
                ELSE alternative_pass(lines, n + 1, c, draws, acc) :
                line \in {strip(lines[n])} })

extract_alternative_results(page, c, draws) ==
    alternative_pass(page.lines, 1, c, draws, <<>>)

\* name.lower().strip()
normalized(name) == Only({strip(low) : low \in {lower(name)}})

\* name_key without .lower(); C4 is checked against it
name_key_cased(r) == strip(r.name)

\* restaurant['name'].lower().strip()
name_key(r) == normalized(r.name)

\* unique_from without the test of seen_names; C11 is checked against it
unique_from_untested(rs, n, seen, acc) ==
    acc \o SubSeq(rs, n, Len(rs))

\* the duplicate-removal loop from record n on, seen being seen_names and
\* acc unique_restaurants
RECURSIVE unique_from(_, _, _, _)
unique_from(rs, n, seen, acc) ==
    IF n > Len(rs) THEN acc
    ELSE Only({ IF key \notin seen
                THEN Only({ unique_from(rs, n + 1, seen2, acc2) :
                            seen2 \in {seen \cup {key}},
                            acc2 \in {Append(acc, rs[n])} })
                ELSE unique_from(rs, n + 1, seen, acc) :
                key \in {name_key(rs[n])} })

\* remove_duplicates keeping every record; C12 is checked against it
remove_duplicates_skipped(rs) == rs

\* the duplicate removal that ends extract_restaurant_info
remove_duplicates(rs) == unique_from(rs, 1, {}, <<>>)

\* the restaurants list before the duplicates are removed
collected(page, c, draws) ==
    Only({ IF Len(primary) < FallbackThreshold
           THEN primary \o extract_alternative_results(page, c, draws)
           ELSE primary :
           primary \in {primary_pass(page.blocks, 1, c, <<>>)} })

extract_restaurant_info(page, c, draws) ==
    Only({ remove_duplicates(rs) : rs \in {collected(page, c, draws)} })

(***************************************************************************)
(* create_sample_data                                                      *)
(***************************************************************************)

sample_record(name, rating, reviews, before, after, url, cuisine, c) ==
    [ name |-> name \o <<" ","-"," ">> \o c,
      rating |-> rating,
      reviews |-> <<reviews>>,
      description |-> before \o c \o after,
      city |-> c,
      url |-> url,
      cuisine_type |-> cuisine ]

create_sample_data(c) ==
    << sample_record(<<"T","h","e"," ","G","o","l","d","e","n"," ","F","o","r","k">>, <<45, 10>>, 234,
           <<"U","p","s","c","a","l","e"," ","d","i","n","i","n","g"," ","e","x","p","e","r","i","e","n","c","e"," ","i","n"," ","t","h","e"," ","h","e","a","r","t"," ","o","f"," ">>,
           <<"."," ","K","n","o","w","n"," ","f","o","r"," ","e","x","c","e","p","t","i","o","n","a","l"," ","s","e","r","v","i","c","e"," ","a","n","d"," ","i","n","n","o","v","a","t","i","v","e"," ","c","u","i","s","i","n","e",".">>,
           <<"h","t","t","p","s",":","/","/","e","x","a","m","p","l","e",".","c","o","m","/","g","o","l","d","e","n","-","f","o","r","k">>, "American", c),
       sample_record(<<"M","a","m","a","'","s"," ","K","i","t","c","h","e","n">>, <<42, 10>>, 456,
           <<"F","a","m","i","l","y","-","o","w","n","e","d"," ","I","t","a","l","i","a","n"," ","r","e","s","t","a","u","r","a","n","t"," ","s","e","r","v","i","n","g"," ","a","u","t","h","e","n","t","i","c"," ","d","i","s","h","e","s"," ","i","n"," ">>,
           <<" ","f","o","r"," ","o","v","e","r"," ","2","0"," ","y","e","a","r","s",".">>,
           <<"h","t","t","p","s",":","/","/","e","x","a","m","p","l","e",".","c","o","m","/","m","a","m","a","s","-","k","i","t","c","h","e","n">>, "Italian", c),
       sample_record(<<"S","p","i","c","e"," ","G","a","r","d","e","n">>, <<43, 10>>, 189,
           <<"A","u","t","h","e","n","t","i","c"," ","I","n","d","i","a","n"," ","c","u","i","s","i","n","e"," ","w","i","t","h"," ","a"," ","m","o","d","e","r","n"," ","t","w","i","s","t","."," ","B","e","s","t"," ","c","u","r","r","y"," ","i","n"," ">>,
           <<".">>,
           <<"h","t","t","p","s",":","/","/","e","x","a","m","p","l","e",".","c","o","m","/","s","p","i","c","e","-","g","a","r","d","e","n">>, "Indian", c),
       sample_record(<<"O","c","e","a","n"," ","B","r","e","e","z","e"," ","S","e","a","f","o","o","d">>, <<41, 10>>, 312,
           <<"F","r","e","s","h"," ","s","e","a","f","o","o","d"," ","r","e","s","t","a","u","r","a","n","t"," ","w","i","t","h"," ","o","c","e","a","n"," ","v","i","e","w","s","."," ","P","o","p","u","l","a","r"," ","s","p","o","t"," ","i","n"," ">>,
           <<" ","f","o","r"," ","s","p","e","c","i","a","l"," ","o","c","c","a","s","i","o","n","s",".">>,
           <<"h","t","t","p","s",":","/","/","e","x","a","m","p","l","e",".","c","o","m","/","o","c","e","a","n","-","b","r","e","e","z","e">>, "Seafood", c),
       sample_record(<<"T","h","e"," ","L","o","c","a","l"," ","B","i","s","t","r","o">>, <<44, 10>>, 167,
           <<"C","o","z","y"," ","n","e","i","g","h","b","o","r","h","o","o","d"," ","b","i","s","t","r","o"," ","i","n"," ">>,
           <<" ","f","e","a","t","u","r","i","n","g"," ","f","a","r","m","-","t","o","-","t","a","b","l","e"," ","i","n","g","r","e","d","i","e","n","t","s"," ","a","n","d"," ","c","r","a","f","t"," ","c","o","c","k","t","a","i","l","s",".">>,
           <<"h","t","t","p","s",":","/","/","e","x","a","m","p","l","e",".","c","o","m","/","l","o","c","a","l","-","b","i","s","t","r","o">>, "American", c),
       sample_record(<<"D","r","a","g","o","n"," ","P","a","l","a","c","e">>, <<4, 1>>, 278,
           <<"T","r","a","d","i","t","i","o","n","a","l"," ","C","h","i","n","e","s","e"," ","r","e","s","t","a","u","r","a","n","t"," ","i","n"," ">>,
           <<" ","k","n","o","w","n"," ","f","o","r"," ","d","i","m"," ","s","u","m"," ","a","n","d"," ","P","e","k","i","n","g"," ","d","u","c","k",".">>,
           <<"h","t","t","p","s",":","/","/","e","x","a","m","p","l","e",".","c","o","m","/","d","r","a","g","o","n","-","p","a","l","a","c","e">>, "Chinese", c),
       sample_record(<<"T","a","c","o"," ","L","i","b","r","e">>, <<42, 10>>, 345,
           <<"V","i","b","r","a","n","t"," ","M","e","x","i","c","a","n"," ","r","e","s","t","a","u","r","a","n","t"," ","i","n"," ">>,
           <<" ","w","i","t","h"," ","l","i","v","e"," ","m","u","s","i","c"," ","a","n","d"," ","a","u","t","h","e","n","t","i","c"," ","s","t","r","e","e","t"," ","t","a","c","o","s",".">>,
           <<"h","t","t","p","s",":","/","/","e","x","a","m","p","l","e",".","c","o","m","/","t","a","c","o","-","l","i","b","r","e">>, "Mexican", c),
       sample_record(<<"C","a","f","e_acute"," ","P","a","r","i","s","i","e","n">>, <<43, 10>>, 123,
           <<"C","h","a","r","m","i","n","g"," ","F","r","e","n","c","h"," ","c","a","f","e_acute"," ","i","n"," ">>,
           <<" ","s","e","r","v","i","n","g"," ","c","r","o","i","s","s","a","n","t","s",","," ","c","o","f","f","e","e",","," ","a","n","d"," ","c","l","a","s","s","i","c"," ","F","r","e","n","c","h"," ","d","i","s","h","e","s",".">>,
           <<"h","t","t","p","s",":","/","/","e","x","a","m","p","l","e",".","c","o","m","/","c","a","f","e","-","p","a","r","i","s","i","e","n">>, "French", c),
       sample_record(<<"T","h","e"," ","S","t","e","a","k","h","o","u","s","e">>, <<46, 10>>, 234,
           <<"P","r","e","m","i","u","m"," ","s","t","e","a","k","h","o","u","s","e"," ","i","n"," ">>,
           <<" ","f","e","a","t","u","r","i","n","g"," ","a","g","e","d"," ","b","e","e","f"," ","a","n","d"," ","a","n"," ","e","x","t","e","n","s","i","v","e"," ","w","i","n","e"," ","s","e","l","e","c","t","i","o","n",".">>,
           <<"h","t","t","p","s",":","/","/","e","x","a","m","p","l","e",".","c","o","m","/","s","t","e","a","k","h","o","u","s","e">>, "American", c),
       sample_record(<<"S","a","k","u","r","a"," ","S","u","s","h","i">>, <<41, 10>>, 198,
           <<"A","u","t","h","e","n","t","i","c"," ","J","a","p","a","n","e","s","e"," ","s","u","s","h","i"," ","r","e","s","t","a","u","r","a","n","t"," ","i","n"," ">>,
           <<" ","w","i","t","h"," ","f","r","e","s","h"," ","f","i","s","h"," ","f","l","o","w","n"," ","i","n"," ","d","a","i","l","y",".">>,
           <<"h","t","t","p","s",":","/","/","e","x","a","m","p","l","e",".","c","o","m","/","s","a","k","u","r","a","-","s","u","s","h","i">>, "Japanese", c) >>

(***************************************************************************)
(* save_to_json                                                            *)
(*                                                                         *)
(* restaurant_dict is the sequence of its items in insertion order, each   *)
(* [key, value].                                                           *)
(***************************************************************************)

\* key in restaurant_dict
has_key(d, key) == \E n \in 1..Len(d) : d[n].key = key

\* restaurant_dict[key] = value
dict_set(d, key, value) ==
    IF has_key(d, key)
    THEN [n \in 1..Len(d) |->
             IF d[n].key = key THEN [key |-> key, value |-> value] ELSE d[n]]
    ELSE Append(d, [key |-> key, value |-> value])

\* f"{original_key} ({counter})"
suffixed_key(original_key, counter) ==
    original_key \o <<" ","(">> \o IntText(counter) \o <<")">>

\* the while loop, entered with key and counter
RECURSIVE free_key(_, _, _, _)
free_key(d, key, original_key, counter) ==
    IF has_key(d, key)
    THEN Only({ free_key(d, next_key, original_key, counter + 1) :
                next_key \in {suffixed_key(original_key, counter + 1)} })
    ELSE key

\* unique_key without the while loop; C5 is checked against it
unique_key_unchecked(d, name) == name

\* the key under which a restaurant named `name` is stored in d
unique_key(d, name) == free_key(d, name, name, 1)

dict_value(i, r) ==
    [ rank |-> i, rating |-> r.rating, reviews |-> r.reviews,
      description |-> r.description, city |-> r.city, url |-> r.url,
      cuisine_type |-> r.cuisine_type ]

\* one turn of the for loop of save_to_json: the i-th restaurant r is stored
store(d, i, r) ==
    Only({ dict_set(d, key, dict_value(i, r)) : key \in {unique_key(d, r.name)} })

\* the for loop of save_to_json from the i-th restaurant on
RECURSIVE build_dict(_, _, _)
build_dict(rs, i, d) ==
    IF i > Len(rs) THEN d
    ELSE Only({ build_dict(rs, i + 1, d2) : d2 \in {store(d, i, rs[i])} })

\* regex \w on str: letters and digits of any script, and the underscore
IsWordChar(ch) == IsLetter(ch) \/ IsDigit(ch) \/ ch = "_"

\* the characters [^\w\-_.] leaves alone
IsSafeChar(ch) == IsWordChar(ch) \/ ch \in {"-", "_", "."}

\* re.sub(r'[^\w\-_.]', '_', s)
sanitize(s) == [i \in 1..Len(s) |-> IF IsSafeChar(s[i]) THEN s[i] ELSE "_"]

\* safe_city_name = re.sub(r'[^\w\-_.]', '_', city.lower())
safe_city_name(c) == Only({sanitize(low) : low \in {lower(c)}})

\* filename = f"restaurants_{safe_city_name}.json"
json_filename(c) == <<"r","e","s","t","a","u","r","a","n","t","s","_">> \o safe_city_name(c) \o <<".","j","s","o","n">>

(***************************************************************************)
(* display_results                                                         *)
(***************************************************************************)

\* the digits of n, left-padded with zeros to width w
RECURSIVE PaddedInt(_, _)
PaddedInt(n, w) ==
    IF w = 0 THEN <<>>
    ELSE PaddedInt(n \div 10, w - 1) \o <<DigitChar(n % 10)>>

RECURSIVE Log10(_)
Log10(den) == IF den <= 1 THEN 0 ELSE 1 + Log10(den \div 10)

\* str() of a float
float_text(r) ==
    IF r[2] = 1 THEN IntText(r[1]) \o <<".","0">>
    ELSE IntText(r[1] \div r[2]) \o <<".">> \o PaddedInt(r[1] % r[2], Log10(r[2]))

\* {restaurant['rating']} in an f-string: str() of a float or of None
rating_text(rating) == IF rating = None THEN <<"N","o","n","e">> ELSE float_text(rating)

\* bool(restaurant['reviews'])
truthy_reviews(v) == v # None /\ v[1] # 0

\* the text printed after "   Rating: "
rating_line(r) ==
    rating_text(r.rating) \o <<"/","5",".","0">> \o
    (IF truthy_reviews(r.reviews)
     THEN <<" ","(">> \o IntText(r.reviews[1]) \o <<" ","r","e","v","i","e","w","s",")">> ELSE <<>>)

\* what the loop prints for the i-th restaurant
display_entry(i, r) ==
    [ index |-> i, name |-> r.name, rating |-> rating_line(r),
      cuisine |-> r.cuisine_type, description |-> r.description,
      url_shown |-> r.url # <<>> ]

display_results(rs) ==
    [ top |-> Len(rs),
      entries |-> [i \in 1..Len(rs) |-> display_entry(i, rs[i])] ]

(***************************************************************************)
(* Inputs of the model: what the user types, the pages the search engine   *)
(* may answer with, the values the random module may return.               *)
(***************************************************************************)

\* what input() may return at the prompt
Inputs == { <<>>, <<" "," ">>, <<"P","a","r","i","s">>, <<" ","S","a_tilde","o"," ","P","a","u","l","o","!"," ">> }

\* a one-letter name part, different for i = 1..26
Letter(i) == <<UpperChars[((i - 1) % 26) + 1]>>

RECURSIVE Repeat(_, _)
Repeat(s, n) == IF n = 0 THEN <<>> ELSE s \o Repeat(s, n - 1)

\* the search result of a given kind whose name part is Letter(i)
Block(kind, i) ==
    CASE kind = "cafe" ->
           [ has_h3 |-> TRUE, title |-> <<"C","a","f","e"," ">> \o Letter(i),
             url |-> <<"h","t","t","p","s",":","/","/","c","a","f","e",".","e","x","a","m","p","l","e","/">>,
             snippet |-> <<"R","a","t","e","d"," ","4",".","5"," ","s","t","a","r","s"," ","(","1",",","2","3","4"," ","r","e","v","i","e","w","s",")","."," ","B","e","s","t"," ","p","i","z","z","a",".">>,
             error |-> FALSE ]
      [] kind = "CAFE" ->
           [ has_h3 |-> TRUE, title |-> <<"C","A","F","E"," ">> \o Letter(i) \o <<" ","-"," ","R","e","v","i","e","w","s">>,
             url |-> <<>>, snippet |-> <<>>, error |-> FALSE ]
      [] kind = "top" ->
           [ has_h3 |-> TRUE,
             title |-> <<"T","o","p"," ","1","0"," ">> \o Letter(i) \o <<" ","K","i","t","c","h","e","n"," ","-"," ","M","e","n","u",","," ","R","e","v","i","e","w","s"," ","-"," ","Y","e","l","p">>,
             url |-> <<"h","t","t","p","s",":","/","/","y","e","l","p",".","e","x","a","m","p","l","e","/">>,
             snippet |-> <<"9",".","9"," ","s","t","a","r","s"," ","f","r","o","m"," ","0"," ","r","e","v","i","e","w","s">>, error |-> FALSE ]
      [] kind = "dash" ->
           [ has_h3 |-> TRUE, title |-> <<"-"," ","M","e","n","u"," ","o","f"," ","r","e","s","t","a","u","r","a","n","t"," ">> \o Letter(i),
             url |-> <<>>, snippet |-> <<"S","u","s","h","i",","," ","r","a","t","i","n","g",":"," ","4">>, error |-> FALSE ]
      [] kind = "long" ->
           [ has_h3 |-> TRUE, title |-> Letter(i) \o <<" ","D","i","n","e","r">>,
             url |-> <<>>,
             snippet |-> Repeat(<<"t","a","s","t","y"," ">>, 34) \o <<"3","STAR">>, error |-> FALSE ]
      [] kind = "hotel" ->
           [ has_h3 |-> TRUE, title |-> <<"H","o","t","e","l"," ">> \o Letter(i),
             url |-> <<>>, snippet |-> <<"5"," ","s","t","a","r","s">>, error |-> FALSE ]
      [] kind = "noh3" ->
           [ has_h3 |-> FALSE, title |-> <<>>, url |-> <<>>,
             snippet |-> <<>>, error |-> FALSE ]
      [] kind = "error" ->
           [ has_h3 |-> TRUE, title |-> <<"C","a","f","e"," ">> \o Letter(i),
             url |-> <<>>, snippet |-> <<>>, error |-> TRUE ]

\* the kinds of the results of a page, repeated along the page, and after
\* how many results the name parts repeat
BlockPatterns ==
    { [kinds |-> <<"cafe">>, cycle |-> 26],
      [kinds |-> <<"cafe", "CAFE">>, cycle |-> 3],
      [kinds |-> <<"top", "hotel", "long">>, cycle |-> 26],
      [kinds |-> <<"dash", "noh3", "cafe", "error">>, cycle |-> 3] }

\* the i-th text line of a given kind
Line(kind, i) ==
    CASE kind = "bistro" -> <<"B","l","u","e"," ","B","i","s","t","r","o"," ">> \o Letter(i)
      [] kind = "padded" -> <<" "," ","c","a","f","e"," ">> \o Letter(i) \o <<" ">>
      [] kind = "short" -> <<"c","a","f","e">>
      [] kind = "plain" -> <<"H","e","l","l","o"," ","w","o","r","l","d">>
      [] kind = "wide" -> Repeat(<<"g","r","i","l","l"," ">>, 20)

\* the kinds of the text lines of a page, repeated along the page
LinePatterns == { <<"bistro">>, <<"padded", "short", "plain", "wide">> }

Cyclic(p, i) == p[((i - 1) % Len(p)) + 1]

RECURSIVE Concat(_)
Concat(ss) == IF ss = <<>> THEN <<>> ELSE Head(ss) \o Concat(Tail(ss))

\* soup.get_text() of the results: the text of every heading and
\* snippet, the markup holding no line break
blocks_text(blocks) ==
    Concat([i \in 1..Len(blocks) |-> blocks[i].title \o blocks[i].snippet])

\* the page with n results of pattern p, followed by k text lines of
\* pattern q; lines is soup.get_text().split('\n')
Page(n, p, k, q) ==
    Only({ [ blocks |-> blocks,
             lines |-> <<blocks_text(blocks)>> \o
                       [i \in 1..k |-> Line(Cyclic(q, i), i)] ] :
           blocks \in {[i \in 1..n |->
                          Block(Cyclic(p.kinds, i), ((i - 1) % p.cycle) + 1)]} })

Pages ==
    { Page(n, p, k, q) :
      n \in 0..MaxBlocks, p \in BlockPatterns,
      k \in {0, MaxLines}, q \in LinePatterns }

\* round(random.uniform(3.5, 4.8), 1) and random.randint(50, 500), for the
\* at most FallbackLimit records of the fallback pass
RandomDraws ==
    { [i \in 1..FallbackLimit |-> [rating |-> <<35, 10>>, reviews |-> 50]],
      [i \in 1..FallbackLimit |->
          IF i % 2 = 1 THEN [rating |-> <<48, 10>>, reviews |-> 500]
          ELSE [rating |-> <<4, 1>>, reviews |-> 123]] }

(***************************************************************************)
(* main() and search_restaurants as a state machine.                       *)
(***************************************************************************)

NoCall == arg = None /\ ret = None

Init ==
    /\ pc = "prompt"
    /\ city = <<>>
    /\ response = "none"
    /\ caught = "none"
    /\ soup = None
    /\ fs_ok = TRUE
    /\ restaurants = <<>>
    /\ displayed = None
    /\ restaurant_dict = <<>>
    /\ filename = <<>>
    /\ file = None
    /\ NoCall

\* main: the input loop; an empty city prompts again
Prompt ==
    /\ pc = "prompt"
    /\ \E typed \in Inputs :
          \E stripped \in {strip(typed)} :
              /\ city' = stripped
              /\ pc' = IF stripped # <<>> THEN "search" ELSE "prompt"
    /\ UNCHANGED <<response, caught, soup, fs_ok, restaurants, displayed,
                   restaurant_dict, filename, file, arg, ret>>

\* search_restaurants: session.get and raise_for_status succeed
FetchOk ==
    /\ pc = "search"
    /\ response' = "ok"
    /\ restaurants' = <<>>
    /\ pc' = "extract"
    /\ UNCHANGED <<city, caught, soup, fs_ok, displayed, restaurant_dict,
                   filename, file, arg, ret>>

\* fallback_data keeping what was scraped; C2 is checked against it
fallback_data_kept(rs, c) == rs

\* fallback_data extending what was scraped; C3 is checked against it
fallback_data_merged(rs, c) == rs \o create_sample_data(c)

\* what the except clauses assign to restaurants
fallback_data(rs, c) == create_sample_data(c)

\* search_restaurants: session.get raises (timeout, connection error) or
\* raise_for_status raises HTTPError; except requests.RequestException
FetchFails ==
    /\ pc = "search"
    /\ \E failure \in {"timeout", "connection_error", "http_error"} :
          response' = failure
    /\ caught' = "RequestException"
    /\ restaurants' = fallback_data(<<>>, city)
    /\ pc' = "return"
    /\ UNCHANGED <<city, soup, fs_ok, displayed, restaurant_dict,
                   filename, file, arg, ret>>

\* search_restaurants: soup = BeautifulSoup(response.content, 'html.parser')
\* and restaurants = self.extract_restaurant_info(soup, city); the content
\* of the page and the random values are known from here on
Extract ==
    /\ pc = "extract"
    /\ \E page \in Pages, draws \in RandomDraws :
          /\ soup' = page
          /\ restaurants' = extract_restaurant_info(page, city, draws)
    /\ pc' = "sleep"
    /\ UNCHANGED <<city, response, caught, fs_ok, displayed,
                   restaurant_dict, filename, file, arg, ret>>

\* search_restaurants: time.sleep(random.uniform(1, 2))
Sleep ==
    /\ pc = "sleep"
    /\ pc' = "return"
    /\ UNCHANGED <<city, response, caught, soup, fs_ok, restaurants,
                   displayed, restaurant_dict, filename, file, arg, ret>>

\* search_restaurants: an exception that is no RequestException leaves the
\* try block, from the extraction or after it; except Exception
UnexpectedError ==
    /\ pc \in {"extract", "sleep"}
    /\ caught' = "Exception"
    /\ restaurants' = fallback_data(restaurants, city)
    /\ pc' = "return"
    /\ UNCHANGED <<city, response, soup, fs_ok, displayed,
                   restaurant_dict, filename, file, arg, ret>>

\* top_restaurants without the slice; C1 is checked against it
top_restaurants_unsliced(rs) == rs

\* restaurants[:10]
top_restaurants(rs) ==
    SubSeq(rs, 1, IF Len(rs) < TopLimit THEN Len(rs) ELSE TopLimit)

\* search_restaurants: return restaurants[:10], which ends the life of soup;
\* main: if not restaurants: ... return
Return ==
    /\ pc = "return"
    /\ \E top \in {top_restaurants(restaurants)} :
          /\ restaurants' = top
          /\ pc' = IF top = <<>> THEN "done" ELSE "display"
    /\ soup' = None
    /\ UNCHANGED <<city, response, caught, fs_ok, displayed,
                   restaurant_dict, filename, file, arg, ret>>

\* main: finder.display_results(restaurants)
Display ==
    /\ pc = "display"
    /\ displayed' = display_results(restaurants)
    /\ pc' = "save"
    /\ UNCHANGED <<city, response, caught, soup, fs_ok, restaurants,
                   restaurant_dict, filename, file, arg, ret>>

\* the restaurant_dict save_to_json builds
save_to_json(rs) == build_dict(rs, 1, <<>>)

\* main: filename = finder.save_to_json(restaurants, city); the write of
\* the file succeeds, or it raises and '' is returned
Save ==
    /\ pc = "save"
    /\ \E d \in {save_to_json(restaurants)}, ok \in BOOLEAN :
          /\ restaurant_dict' = d
          /\ fs_ok' = ok
          /\ filename' = IF ok THEN json_filename(city) ELSE <<>>
          /\ file' = IF ok THEN d ELSE None
    /\ pc' = "done"
    /\ UNCHANGED <<city, response, caught, soup, restaurants, displayed,
                   arg, ret>>

\* main: except KeyboardInterrupt; the user cancels the run anywhere before
\* its end
Interrupt ==
    /\ pc \in {"prompt", "search", "extract", "sleep", "return", "display", "save"}
    /\ pc' = "cancelled"
    /\ UNCHANGED <<city, response, caught, soup, fs_ok, restaurants,
                   displayed, restaurant_dict, filename, file, arg, ret>>

Next ==
    \/ Prompt
    \/ FetchOk
    \/ FetchFails
    \/ Extract
    \/ Sleep
    \/ UnexpectedError
    \/ Return
    \/ Display
    \/ Save
    \/ Interrupt

Spec == Init /\ [][Next]_vars

(***************************************************************************)
(* The methods called on their own.  The variables of main keep the values *)
(* a fresh process has; arg holds the arguments of the call, ret what it   *)
(* returned.                                                               *)
(***************************************************************************)

Idle ==
    /\ city = <<>>
    /\ response = "none"
    /\ caught = "none"
    /\ soup = None
    /\ fs_ok = TRUE
    /\ restaurants = <<>>
    /\ displayed = None
    /\ restaurant_dict = <<>>
    /\ filename = <<>>
    /\ file = None

\* all sequences of at most n elements of S
RECURSIVE SeqsUpTo(_, _)
SeqsUpTo(S, n) ==
    IF n = 0 THEN {<<>>}
    ELSE Only({ shorter \cup { Append(s, x) : s \in shorter, x \in S } :
                shorter \in {SeqsUpTo(S, n - 1)} })

RECURSIVE Join(_)
Join(ws) ==
    IF ws = <<>> THEN <<>>
    ELSE IF Len(ws) = 1 THEN ws[1]
    ELSE ws[1] \o <<" ">> \o Join(Tail(ws))

(* save_to_json(restaurants, city) *)

\* the longest list of restaurants saved
MaxSaved == 4

SavedNames == { <<"C","a","f","e"," ","X">>, <<"C","a","f","e"," ","X"," ","(","2",")">>, <<"C","a","f","e"," ","X"," ","(","3",")">>, <<"Y">> }

\* the i-th restaurant of a list, told from the others by its review count
saved_record(name, i) ==
    [ name |-> name, rating |-> None, reviews |-> <<i>>,
      description |-> <<>>, city |-> <<"P","a","r","i","s">>, url |-> <<>>,
      cuisine_type |-> "Various" ]

SavedLists ==
    { [i \in 1..Len(names) |-> saved_record(names[i], i)] :
      names \in SeqsUpTo(SavedNames, MaxSaved) }

InitSave ==
    /\ pc = "save"
    /\ city = <<"P","a","r","i","s">>
    /\ restaurants \in SavedLists
    /\ response = "none"
    /\ caught = "none"
    /\ soup = None
    /\ fs_ok = TRUE
    /\ displayed = None
    /\ restaurant_dict = <<>>
    /\ filename = <<>>
    /\ file = None
    /\ NoCall

SpecSave == InitSave /\ [][Save]_vars

(* extract_rating_from_text(text) *)

\* the most fragments a text is made of
MaxFragments == 4

RatingFragments ==
    { <<"9",".","9">>, <<"4",".","5">>, <<" ","s","t","a","r","s">>, <<"R","a","t","i","n","g",":"," ">>, <<"STAR">>, <<"7">> }

RatingTexts == { Concat(fs) : fs \in SeqsUpTo(RatingFragments, MaxFragments) }

InitRating ==
    /\ pc = "extract_rating_from_text"
    /\ arg \in RatingTexts
    /\ ret = None
    /\ Idle

CallRating ==
    /\ pc = "extract_rating_from_text"
    /\ ret' = extract_rating_from_text(arg)
    /\ pc' = "rated"
    /\ UNCHANGED <<city, response, caught, soup, fs_ok, restaurants,
                   displayed, restaurant_dict, filename, file, arg>>

SpecRating == InitRating /\ [][CallRating]_vars

(* guess_cuisine_type(title, description) *)

\* the most words of a title
MaxTitleWords == 2

TitleWords ==
    { <<"S","u","s","h","i">>, <<"p","i","z","z","a">>, <<"G","R","I","L","L">>, <<"g","r","e","e","k">>, <<"d","i","m">>, <<"s","u","m">>, <<"f","o","o","d">> }

Titles == { Join(ws) : ws \in SeqsUpTo(TitleWords, MaxTitleWords) }

Descriptions == {<<>>} \cup TitleWords

InitCuisine ==
    /\ pc = "guess_cuisine_type"
    /\ arg \in { [title |-> t, description |-> d] :
                 t \in Titles, d \in Descriptions }
    /\ ret = None
    /\ Idle

CallCuisine ==
    /\ pc = "guess_cuisine_type"
    /\ ret' = guess_cuisine_type(arg.title, arg.description)
    /\ pc' = "guessed"
    /\ UNCHANGED <<city, response, caught, soup, fs_ok, restaurants,
                   displayed, restaurant_dict, filename, file, arg>>

SpecCuisine == InitCuisine /\ [][CallCuisine]_vars

(* the duplicate removal of extract_restaurant_info(soup, city) *)

\* the longest list of restaurants deduplicated
MaxCollected == 4

CollectedNames == { <<"C","a","f","e"," ","A">>, <<" ","c","a","f","e"," ","a"," ">>, <<"C","A","F","E"," ","A">>, <<"B","i","s","t","r","o"," ","B">> }

CollectedLists ==
    { [i \in 1..Len(names) |-> saved_record(names[i], i)] :
      names \in SeqsUpTo(CollectedNames, MaxCollected) }

InitDedupe ==
    /\ pc = "remove_duplicates"
    /\ arg \in CollectedLists
    /\ ret = None
    /\ Idle

\* the loop run on arg, and run again on its own result
CallDedupe ==
    /\ pc = "remove_duplicates"
    /\ \E once \in {remove_duplicates(arg)} :
          ret' = [once |-> once, twice |-> remove_duplicates(once)]
    /\ pc' = "deduplicated"
    /\ UNCHANGED <<city, response, caught, soup, fs_ok, restaurants,
                   displayed, restaurant_dict, filename, file, arg>>

SpecDedupe == InitDedupe /\ [][CallDedupe]_vars

(***************************************************************************)
(* The claims.                                                             *)
(***************************************************************************)

\* C1: extract_restaurant_info returns at most 15 records, whatever the
\* page holds, and search_restaurants returns at most 10 records on every
\* path (successful scrape, request failure, unexpected exception).
C1_AtMostFifteenThenTen ==
    /\ pc = "sleep" => Len(restaurants) <= 15
    /\ pc \in {"display", "save", "done"} => Len(restaurants) <= 10

\* a page of more than 15 results from which 15 records were extracted
C1_Witness ==
    /\ pc = "sleep"
    /\ Len(soup.blocks) > 15
    /\ Len(restaurants) = 15

SampleNames ==
    << <<"T","h","e"," ","G","o","l","d","e","n"," ","F","o","r","k">>, <<"M","a","m","a","'","s"," ","K","i","t","c","h","e","n">>, <<"S","p","i","c","e"," ","G","a","r","d","e","n">>,
       <<"O","c","e","a","n"," ","B","r","e","e","z","e"," ","S","e","a","f","o","o","d">>, <<"T","h","e"," ","L","o","c","a","l"," ","B","i","s","t","r","o">>, <<"D","r","a","g","o","n"," ","P","a","l","a","c","e">>,
       <<"T","a","c","o"," ","L","i","b","r","e">>, <<"C","a","f","e_acute"," ","P","a","r","i","s","i","e","n">>, <<"T","h","e"," ","S","t","e","a","k","h","o","u","s","e">>,
       <<"S","a","k","u","r","a"," ","S","u","s","h","i">> >>

\* C3: when the fetch fails or an unexpected exception escapes the scrape,
\* search_restaurants returns exactly the 10 sample records in their order,
\* each with the query city in its city field, name and description, none
\* of the scraped records being kept, and save_to_json writes 10 keys.
C3_FailureGivesSampleData ==
    (caught # "none" /\ pc \in {"display", "save", "done"}) =>
        /\ Len(restaurants) = 10
        /\ \A i \in 1..Len(restaurants) :
              /\ restaurants[i].name = SampleNames[i] \o <<" ","-"," ">> \o city
              /\ restaurants[i].city = city
              /\ contains(restaurants[i].description, city)
        /\ restaurants = create_sample_data(city)
        /\ pc = "done" =>
              /\ Len(restaurant_dict) = 10
              /\ \A i \in 1..Len(restaurant_dict) :
                    /\ restaurant_dict[i].key = restaurants[i].name
                    /\ restaurant_dict[i].value.city = city
              /\ fs_ok => Len(file) = 10

\* a run that ended after an exception escaped a successful fetch, with
\* the 10 sample records written
C3_Witness ==
    /\ pc = "done"
    /\ response = "ok"
    /\ caught = "Exception"
    /\ fs_ok
    /\ Len(file) = 10
    /\ file[10].key = <<"S","a","k","u","r","a"," ","S","u","s","h","i"," ","-"," ","P","a","r","i","s">>

\* C4: no two records of the list search_restaurants holds and returns
\* have the same name once lowercased and stripped, on every path.
C4_NoDuplicateNames ==
    \A i, j \in 1..Len(restaurants) :
        i # j => normalized(restaurants[i].name) # normalized(restaurants[j].name)

\* four results, the fourth named as the first but for the case, gave
\* three records
C4_Witness ==
    /\ pc = "sleep"
    /\ Len(soup.blocks) = 4
    /\ soup.blocks[1].title = <<"C","a","f","e"," ","A">>
    /\ soup.blocks[4].title = <<"C","A","F","E"," ","A"," ","-"," ","R","e","v","i","e","w","s">>
    /\ Len(restaurants) = 3
    /\ restaurants[1].name = <<"C","a","f","e"," ","A">>

\* name followed by " (k)"
Suffixed(name, k) == name \o <<" ","(">> \o IntText(k) \o <<")">>

\* the keys of the first i - 1 items of d
KeysBefore(d, i) == { d[j].key : j \in 1..(i - 1) }

\* C5, as claimed: the mapping save_to_json builds from n records has n
\* distinct keys, no record overwrites another, the record at position i
\* is stored with rank i, the first record of a name keeps the bare name
\* as its key, and a later record whose name is already a key gets the
\* name followed by " (k)" for the smallest k >= 2 that makes the key
\* unused.
C5_FirstOfNameKeepsName ==
    pc = "done" =>
        /\ Len(restaurant_dict) = Len(restaurants)
        /\ \A i, j \in 1..Len(restaurant_dict) :
              i # j => restaurant_dict[i].key # restaurant_dict[j].key
        /\ \A i \in 1..Len(restaurant_dict) :
              /\ restaurant_dict[i].value.rank = i
              /\ restaurant_dict[i].value.reviews = restaurants[i].reviews
              /\ (\A j \in 1..(i - 1) : restaurants[j].name # restaurants[i].name)
                    => restaurant_dict[i].key = restaurants[i].name
              /\ restaurants[i].name \in KeysBefore(restaurant_dict, i) =>
                    \E k \in 2..(i + 1) :
                        /\ restaurant_dict[i].key = Suffixed(restaurants[i].name, k)
                        /\ \A k2 \in 2..(k - 1) :
                              Suffixed(restaurants[i].name, k2)
                                  \in KeysBefore(restaurant_dict, i)

\* C5, amended: the mapping save_to_json builds from n records has n
\* distinct keys, no record overwrites another, the record at position i
\* is stored with rank i, a record whose name is not yet a key keeps the
\* bare name as its key, and a record whose name is already a key (the
\* name of an earlier record or the suffixed key given to one) gets the
\* name followed by " (k)" for the smallest k >= 2 that makes the key
\* unused.
C5_UnusedNameKeepsName ==
    pc = "done" =>
        /\ Len(restaurant_dict) = Len(restaurants)
        /\ \A i, j \in 1..Len(restaurant_dict) :
              i # j => restaurant_dict[i].key # restaurant_dict[j].key
        /\ \A i \in 1..Len(restaurant_dict) :
              /\ restaurant_dict[i].value.rank = i
              /\ restaurant_dict[i].value.reviews = restaurants[i].reviews
              /\ restaurants[i].name \notin KeysBefore(restaurant_dict, i)
                    => restaurant_dict[i].key = restaurants[i].name
              /\ restaurants[i].name \in KeysBefore(restaurant_dict, i) =>
                    \E k \in 2..(i + 1) :
                        /\ restaurant_dict[i].key = Suffixed(restaurants[i].name, k)
                        /\ \A k2 \in 2..(k - 1) :
                              Suffixed(restaurants[i].name, k2)
                                  \in KeysBefore(restaurant_dict, i)

\* "Cafe X", "Cafe X", "Cafe X (2)" saved: the third record is the first
\* of its name and finds its name taken by the second
C5_Witness ==
    /\ pc = "done"
    /\ Len(restaurants) = 3
    /\ restaurants[1].name = <<"C","a","f","e"," ","X">>
    /\ restaurants[2].name = <<"C","a","f","e"," ","X">>
    /\ restaurants[3].name = <<"C","a","f","e"," ","X"," ","(","2",")">>
    /\ restaurant_dict[2].key = <<"C","a","f","e"," ","X"," ","(","2",")">>
    /\ restaurant_dict[3].key = <<"C","a","f","e"," ","X"," ","(","2",")"," ","(","2",")">>

\* C6: every record of the extractor (primary or fallback pass) or of the
\* sample data has a non-empty name.
C6_NamesNonEmpty ==
    \A i \in 1..Len(restaurants) : restaurants[i].name # <<>>

\* the characters of [a-z0-9_.-]
AsciiSafeChars ==
    { LowerChars[i] : i \in 1..26 } \cup { DigitChars[i] : i \in 1..10 }
        \cup {"_", ".", "-"}

\* C7: the filename is "restaurants_" + s + ".json" where s is the
\* lowercased city with every character outside [A-Za-z0-9_.-] replaced by
\* "_", hence matches restaurants_[a-z0-9_.-]+\.json.
C7_AsciiFilename ==
    filename # <<>> =>
        /\ Len(filename) = Len(city) + 17
        /\ SubSeq(filename, 1, 12) = <<"r","e","s","t","a","u","r","a","n","t","s","_">>
        /\ SubSeq(filename, Len(filename) - 4, Len(filename)) = <<".","j","s","o","n">>
        /\ Len(city) >= 1
        /\ \A i \in 1..Len(city) :
              filename[12 + i] =
                  IF lower_char(city[i]) \in AsciiSafeChars
                  THEN lower_char(city[i]) ELSE "_"
        /\ \A i \in 1..Len(city) : filename[12 + i] \in AsciiSafeChars

\* C8: extract_rating_from_text tries the four patterns in order and
\* returns the number of the first pattern whose match lies in [0, 5], a
\* match outside [0, 5] being rejected and the remaining patterns tried;
\* the result is None or in [0, 5]; "9.9 stars" yields None, "4.5 stars"
\* yields 4.5, "9.9 stars" followed by "Rating: 4.5" yields 4.5.
C8_FirstMatchInRange ==
    pc = "rated" =>
        /\ ret = None \/ (0 <= ret[1] /\ ret[1] <= 5 * ret[2])
        /\ \E hits \in {{ n \in 1..4 :
                            /\ rating_match(arg, n) # None
                            /\ rating_in_range(ParseFloat(rating_match(arg, n))) }} :
              IF hits = {} THEN ret = None
              ELSE ret = ParseFloat(rating_match(arg, Min(hits)))
        /\ arg = <<"9",".","9"," ","s","t","a","r","s">> => ret = None
        /\ arg = <<"4",".","5"," ","s","t","a","r","s">> => ret = <<45, 10>>
        /\ arg = <<"9",".","9"," ","s","t","a","r","s","R","a","t","i","n","g",":"," ","4",".","5">> => ret = <<45, 10>>

\* the first pattern matched 9.9, which was rejected, and the second gave
\* the rating
C8_Witness ==
    /\ pc = "rated"
    /\ arg = <<"9",".","9"," ","s","t","a","r","s","R","a","t","i","n","g",":"," ","4",".","5">>
    /\ rating_match(arg, 1) = <<"9",".","9">>
    /\ ret = <<45, 10>>

\* the entries of cuisine_keywords one of whose keywords is in text
MatchingEntries(text) ==
    { n \in 1..Len(cuisine_keywords) :
        contains_any(text, cuisine_keywords[n][2]) }

CuisineLabels ==
    { "Italian", "Chinese", "Mexican", "American", "French", "Indian",
      "Japanese", "Mediterranean" }

\* the text guess_cuisine_type searches
CuisineText == lower(arg.title \o <<" ">> \o arg.description)

\* C9, as claimed: any text containing "sushi" yields "Japanese", text with
\* none of the table's keywords yields "Various", and the result is one of
\* the table's labels or "Various".
C9_SushiIsJapanese ==
    pc = "guessed" =>
        /\ contains(CuisineText, <<"s","u","s","h","i">>) => ret = "Japanese"
        /\ MatchingEntries(CuisineText) = {} => ret = "Various"
        /\ ret \in CuisineLabels \cup {"Various"}

\* C9, amended: text containing "sushi" yields "Japanese" unless it also
\* contains a keyword of an entry earlier in the table (Italian, Chinese,
\* Mexican, American, French, Indian), and then yields the label of the
\* first such entry; text with none of the table's keywords yields
\* "Various"; the result is one of the table's labels or "Various".
C9_SushiIsJapaneseUnlessEarlier ==
    pc = "guessed" =>
        \E text \in {CuisineText} :
            \E found \in {MatchingEntries(text)} :
                /\ (contains(text, <<"s","u","s","h","i">>) /\ \A n \in found : n >= 7)
                      => ret = "Japanese"
                /\ (contains(text, <<"s","u","s","h","i">>) /\ \E n \in found : n < 7)
                      => /\ ret = cuisine_keywords[Min(found)][1]
                         /\ ret \in CuisineLabels \ {"Japanese", "Mediterranean"}
                /\ found = {} => ret = "Various"
                /\ ret \in CuisineLabels \cup {"Various"}

\* "Sushi" and "pizza" in one text gave the label of the earlier entry
C9_Witness ==
    /\ pc = "guessed"
    /\ arg.title = <<"S","u","s","h","i"," ","p","i","z","z","a">>
    /\ arg.description = <<>>
    /\ ret = "Italian"

\* C10: display_results shows "N/A" for an absent rating: the rating text
\* of a record whose rating is None is "N/A", never the text of None.
C10_AbsentRatingShownAsNA ==
    displayed # None =>
        \A i \in 1..Len(restaurants) :
            restaurants[i].rating = None =>
                /\ StartsWithAt(displayed.entries[i].rating, 1, <<"N","/","A">>)
                /\ ~StartsWithAt(displayed.entries[i].rating, 1, <<"N","o","n","e">>)

\* the positions of rs that hold the first record of their lowercased,
\* stripped name
FirstOccurrences(rs) ==
    { i \in 1..Len(rs) :
        \A j \in 1..(i - 1) : normalized(rs[j].name) # normalized(rs[i].name) }

\* the n-th smallest element of a set of numbers
NthOf(S, n) == CHOOSE i \in S : Cardinality({j \in S : j < i}) = n - 1

\* C11: the deduplication step (key = name lowercased and stripped) keeps
\* exactly the first occurrence of each key in the original relative
\* order, never returns more records than it was given, returns an empty
\* list for an empty input, and is idempotent.
C11_KeepsFirstOccurrences ==
    pc = "deduplicated" =>
        \E first \in {FirstOccurrences(arg)} :
            /\ Len(ret.once) = Cardinality(first)
            /\ \A n \in 1..Len(ret.once) : ret.once[n] = arg[NthOf(first, n)]
            /\ Len(ret.once) <= Len(arg)
            /\ arg = <<>> => ret.once = <<>>
            /\ ret.twice = ret.once

\* of "Cafe A", "Bistro B", " cafe a ", "CAFE A" the first two were kept
C11_Witness ==
    /\ pc = "deduplicated"
    /\ Len(arg) = 4
    /\ arg[1].name = <<"C","a","f","e"," ","A">>
    /\ arg[2].name = <<"B","i","s","t","r","o"," ","B">>
    /\ arg[3].name = <<" ","c","a","f","e"," ","a"," ">>
    /\ arg[4].name = <<"C","A","F","E"," ","A">>
    /\ ret.once = <<arg[1], arg[2]>>
    /\ ret.twice = ret.once

\* C12: in every run of main the suffix loop of save_to_json never runs:
\* each record is stored under its own unmodified name, the mapping has as
\* many keys as records were displayed, and the ranks are 1..n in display
\* order, the list that reaches save_to_json being deduplicated or the
\* sample list.
C12_SavedUnderOwnNames ==
    (pc = "done" /\ displayed # None) =>
        /\ Len(restaurant_dict) = displayed.top
        /\ Len(restaurant_dict) = Len(displayed.entries)
        /\ \A i \in 1..Len(restaurant_dict) :
              /\ restaurant_dict[i].key = restaurants[i].name
              /\ restaurant_dict[i].key = displayed.entries[i].name
              /\ restaurant_dict[i].value.rank = displayed.entries[i].index
              /\ restaurant_dict[i].value.rank = i
        /\ fs_ok => file = restaurant_dict

\* a run that saved the three records left of a page repeating their names
C12_Witness ==
    /\ pc = "done"
    /\ caught = "none"
    /\ fs_ok
    /\ Len(file) = 3
    /\ file[1].key = <<"C","a","f","e"," ","A">>
    /\ file[2].key = <<"C","A","F","E"," ","B">>
    /\ file[3].key = <<"C","a","f","e"," ","C">>
    /\ file[3].value.rank = 3
    /\ displayed.top = 3

=============================================================================
